---- MODULE Spec2Model ----
(***************************************************************************)
(* ThumbSafi: the thumbnail editor's document model (App component), its   *)
(* preview overlay (EditorPreview component) and the async generation      *)
(* flows, as a state machine.  One action per event handler; the guards    *)
(* are the handlers' early returns and the render conditions under which   *)
(* the control that calls the handler exists.                              *)
(***************************************************************************)
EXTENDS Integers, Sequences, FiniteSets, TLC

(***************************************************************************)
(* Bounds of the model.                                                    *)
(***************************************************************************)
\* addText is not called once the layer sequence holds this many layers.
MaxLayers == 2
\* Date.now() takes the values 0..MaxClock.
MaxClock == 1
\* At most this many async handler invocations are pending at once.
MaxFlows == 2

(***************************************************************************)
(* Values.  null/undefined of a string-typed field is the empty tuple, so  *)
(* that it compares with every value of the field.                         *)
(***************************************************************************)
NoImage == "none"
NoError == "none"
NoId == << >>
NoMask == << >>
NoCrop == << >>

EditorModes == {"text", "retouch", "crop"}

\* The cells of the retouch overlay canvas (one row of the display box).
Pixels == {1, 2}

\* `text-${Date.now()}` and `text-${Date.now()}-${index}` as tuples.
AddId(t) == <<t>>
DesignId(t, index) == <<t, index>>
\* An id no layer ever carries.
AbsentId == <<MaxClock + 1, 0, 0>>

VARIABLES
    baseImage,          \* App: string | null
    textElements,       \* App: TextElement[]
    selectedTextId,     \* App: string | null
    isLoading,          \* App: boolean
    error,              \* App: string | null
    isDesignerOpen,     \* App: boolean
    isUploadModalOpen,  \* App: boolean
    editorMode,         \* App: 'text' | 'retouch' | 'crop'
    retouchMask,        \* App: data URL of the derived mask | null
    crop,               \* App: live crop (percent) | undefined
    completedCrop,      \* App: completed crop (pixels) | undefined
    overlay,            \* EditorPreview: painted cells of the mask canvas
    isDrawing,          \* EditorPreview: boolean
    flows,              \* pending invocations of the async handlers
    now,                \* the millisecond clock
    last,               \* the name of the handler or continuation that ran last
    calc                \* input and result of the pixel and geometry functions

appvars == <<baseImage, textElements, selectedTextId, isLoading, error,
             isDesignerOpen, isUploadModalOpen, editorMode, retouchMask,
             crop, completedCrop, overlay, isDrawing, flows, now>>
vars == <<appvars, last, calc>>

(***************************************************************************)
(* renderContent: which view the App shows.                                *)
(***************************************************************************)
ShowSpinner == isLoading
ShowError == ~isLoading /\ error # NoError
ShowStart == ~isLoading /\ error = NoError /\ baseImage = NoImage
ShowEditor == ~isLoading /\ error = NoError /\ baseImage # NoImage

(***************************************************************************)
(* Text layers.                                                            *)
(***************************************************************************)
\* A faulty addText: top and left exchanged.
NewTextSwapped(id) ==
    [id |-> id, content |-> "Your Text Here", color |-> "#FFFFFF",
     fontSize |-> 80, fontFamily |-> "Anton", top |-> 20, left |-> 40,
     outlineColor |-> "#000000", outlineWidth |-> 5]

NewText(id) ==
    [id |-> id, content |-> "Your Text Here", color |-> "#FFFFFF",
     fontSize |-> 80, fontFamily |-> "Anton", top |-> 40, left |-> 20,
     outlineColor |-> "#000000", outlineWidth |-> 5]

\* A faulty addText that puts the new layer first.
AppendTextFirst(prev, newText) == <<newText>> \o prev

\* [...prev, newText]
AppendText(prev, newText) == prev \o <<newText>>

\* { ...text, ...updates }
Spread(text, updates) ==
    [f \in (DOMAIN text) \cup (DOMAIN updates) |->
        IF f \in DOMAIN updates THEN updates[f] ELSE text[f]]

\* A faulty deleteText: the filter's test inverted.
FilterInverted(prev, id) == SelectSeq(prev, LAMBDA text : text.id = id)

RECURSIVE Filter(_, _)
\* prev.filter(text => text.id !== id)
Filter(prev, id) ==
    IF prev = << >> THEN << >>
    ELSE IF Head(prev).id # id
         THEN <<Head(prev)>> \o Filter(Tail(prev), id)
         ELSE Filter(Tail(prev), id)

\* A faulty updateText: the updates spread into every layer.
MapUpdateAll(prev, id, updates) ==
    [i \in 1..Len(prev) |-> Spread(prev[i], updates)]

\* prev.map(text => text.id === id ? { ...text, ...updates } : text)
MapUpdate(prev, id, updates) ==
    [i \in 1..Len(prev) |->
        IF prev[i].id = id THEN Spread(prev[i], updates) ELSE prev[i]]

LayerIds(layers) == {layers[i].id : i \in 1..Len(layers)}

\* The partial records the editing controls pass to updateText.
UpdateChoices == { [fontSize |-> 120], [top |-> 0, left |-> 0] }

(***************************************************************************)
(* The EditorPreview component exists exactly while the editor view is     *)
(* rendered.  Its canvas and its isDrawing state are created blank on      *)
(* mount (resizeCanvas runs in the mount effect) and are lost on unmount,  *)
(* where maskCanvasRef.current becomes null.                               *)
(***************************************************************************)
BlankOverlay == {}

Preview(o, d) ==
    IF ShowEditor'
    THEN overlay' = o /\ isDrawing' = d
    ELSE overlay' = BlankOverlay /\ isDrawing' = FALSE

Did(op) == last' = op

InitApp ==
    /\ baseImage = NoImage
    /\ textElements = << >>
    /\ selectedTextId = NoId
    /\ isLoading = FALSE
    /\ error = NoError
    /\ isDesignerOpen = FALSE
    /\ isUploadModalOpen = FALSE
    /\ editorMode = "text"
    /\ retouchMask = NoMask
    /\ crop = NoCrop
    /\ completedCrop = NoCrop
    /\ overlay = BlankOverlay
    /\ isDrawing = FALSE
    /\ flows = << >>
    /\ now = 0
    /\ last = "init"

Init ==
    /\ InitApp
    /\ calc = [fn |-> "none"]

(***************************************************************************)
(* Text layer handlers of App.  The "Add Text" button and the ControlPanel *)
(* exist in the editor view in text mode.                                  *)
(***************************************************************************)
TextControls == ShowEditor /\ editorMode = "text"

\* Date.now(): some value not before the last one read.
AddText ==
    /\ TextControls
    /\ Len(textElements) < MaxLayers
    /\ \E t \in now..MaxClock :
        LET newText == NewText(AddId(t)) IN
        /\ now' = t
        /\ textElements' = AppendText(textElements, newText)
        /\ selectedTextId' = newText.id
        /\ Did("addText")
    /\ UNCHANGED <<baseImage, isLoading, error, isDesignerOpen,
                   isUploadModalOpen, editorMode, retouchMask, crop,
                   completedCrop, overlay, isDrawing, flows, calc>>

UpdateText(id, updates) ==
    /\ TextControls
    /\ textElements' = MapUpdate(textElements, id, updates)
    /\ Did("updateText")
    /\ UNCHANGED <<baseImage, selectedTextId, isLoading, error,
                   isDesignerOpen, isUploadModalOpen, editorMode,
                   retouchMask, crop, completedCrop, overlay, isDrawing,
                   flows, now, calc>>

\* A faulty deleteText: the selection is left alone.
DeleteTextKeepsSelection(id) ==
    /\ TextControls
    /\ textElements' = Filter(textElements, id)
    /\ Did("deleteText")
    /\ UNCHANGED <<baseImage, selectedTextId, isLoading, error,
                   isDesignerOpen, isUploadModalOpen, editorMode,
                   retouchMask, crop, completedCrop, overlay, isDrawing,
                   flows, now, calc>>

DeleteText(id) ==
    /\ TextControls
    /\ textElements' = Filter(textElements, id)
    /\ selectedTextId' = IF selectedTextId = id THEN NoId ELSE selectedTextId
    /\ Did("deleteText")
    /\ UNCHANGED <<baseImage, isLoading, error, isDesignerOpen,
                   isUploadModalOpen, editorMode, retouchMask, crop,
                   completedCrop, overlay, isDrawing, flows, now, calc>>

\* onSelectText(text.id), for a rendered layer.
SelectText(id) ==
    /\ TextControls
    /\ id \in LayerIds(textElements)
    /\ selectedTextId' = id
    /\ Did("selectText")
    /\ UNCHANGED <<baseImage, textElements, isLoading, error,
                   isDesignerOpen, isUploadModalOpen, editorMode,
                   retouchMask, crop, completedCrop, overlay, isDrawing,
                   flows, now, calc>>

(***************************************************************************)
(* Mode toolbar and "Start Over".                                          *)
(***************************************************************************)
\* A faulty mode switch: leaving a mode drops the mask.
SetEditorModeClearsMask(mode) ==
    /\ ShowEditor
    /\ editorMode' = mode
    /\ retouchMask' = IF mode = editorMode THEN retouchMask ELSE NoMask
    /\ Did("setEditorMode")
    /\ UNCHANGED <<baseImage, textElements, selectedTextId, isLoading,
                   error, isDesignerOpen, isUploadModalOpen, crop,
                   completedCrop, overlay, isDrawing, flows, now, calc>>

SetEditorMode(mode) ==
    /\ ShowEditor
    /\ editorMode' = mode
    /\ Did("setEditorMode")
    /\ UNCHANGED <<baseImage, textElements, selectedTextId, isLoading,
                   error, isDesignerOpen, isUploadModalOpen, retouchMask,
                   crop, completedCrop, overlay, isDrawing, flows, now, calc>>

\* A faulty handleStartOver: setCompletedCrop(undefined) forgotten.
StartOverKeepsCompletedCrop ==
    /\ baseImage' = NoImage
    /\ textElements' = << >>
    /\ selectedTextId' = NoId
    /\ error' = NoError
    /\ isLoading' = FALSE
    /\ retouchMask' = NoMask
    /\ editorMode' = "text"
    /\ crop' = NoCrop
    /\ UNCHANGED completedCrop

\* The nine setters of handleStartOver.
StartOver ==
    /\ baseImage' = NoImage
    /\ textElements' = << >>
    /\ selectedTextId' = NoId
    /\ error' = NoError
    /\ isLoading' = FALSE
    /\ retouchMask' = NoMask
    /\ editorMode' = "text"
    /\ crop' = NoCrop
    /\ completedCrop' = NoCrop

HandleStartOver ==
    /\ ShowEditor
    /\ StartOver
    /\ Did("handleStartOver")
    /\ UNCHANGED <<isDesignerOpen, isUploadModalOpen, flows, now, calc>>
    /\ Preview(overlay, isDrawing)

\* A faulty "Try Again" that starts over whether or not a background exists.
DismissErrorStartsOver ==
    /\ ShowError
    /\ StartOver
    /\ Did("dismissError")
    /\ UNCHANGED <<isDesignerOpen, isUploadModalOpen, flows, now, calc>>
    /\ Preview(overlay, isDrawing)

\* "Try Again" of the error view:
\* setError(null); if (!baseImage) handleStartOver();
DismissError ==
    /\ ShowError
    /\ IF baseImage = NoImage
       THEN StartOver
       ELSE /\ error' = NoError
            /\ UNCHANGED <<baseImage, textElements, selectedTextId,
                           isLoading, retouchMask, editorMode, crop,
                           completedCrop>>
    /\ Did("dismissError")
    /\ UNCHANGED <<isDesignerOpen, isUploadModalOpen, flows, now, calc>>
    /\ Preview(overlay, isDrawing)


(***************************************************************************)
(* Retouch overlay: the canvas handlers of EditorPreview.  A pointer event *)
(* carries the cell under the pointer; the brush disc always covers it.    *)
(***************************************************************************)
Stamp(p) == {p}

\* drawOnCanvas as called from a handler of the render in which isDrawing
\* has the value `drawing`.
DrawOnCanvas(drawing, p) ==
    IF drawing THEN overlay \cup Stamp(p) ELSE overlay

(***************************************************************************)
(* Pixels.  A pixel is its colour and its alpha, each channel 0..255.  The *)
(* brush fills with rgba(255, 255, 255, 0.7), so a painted cell of the     *)
(* overlay has nonzero alpha and an unpainted one has alpha zero.          *)
(***************************************************************************)
Transparent == [rgb |-> <<0, 0, 0>>, a |-> 0]
Brushed == [rgb |-> <<255, 255, 255>>, a |-> 179]
White == [rgb |-> <<255, 255, 255>>, a |-> 255]
Black == [rgb |-> <<0, 0, 0>>, a |-> 255]

\* getImageData of the copy of the overlay canvas.
ImageData(o) == [p \in Pixels |-> IF p \in o THEN Brushed ELSE Transparent]

\* The pixel loop of handleMouseUp: a cell with nonzero alpha becomes pure
\* white, every other cell pure black, and hasDrawing tells whether there
\* was a cell of the first kind.
HasDrawing(o) == \E p \in Pixels : ImageData(o)[p].a > 0

\* A faulty pixel loop that leaves the unmarked cells transparent.
BwMaskUnmarkedTransparent(o) ==
    [p \in Pixels |-> IF ImageData(o)[p].a > 0 THEN White ELSE Transparent]

BwMask(o) == [p \in Pixels |-> IF ImageData(o)[p].a > 0 THEN White ELSE Black]

\* onMaskChange(hasDrawing ? bwMaskCanvas.toDataURL('image/png') : null)
DerivedMask(o) == IF HasDrawing(o) THEN BwMask(o) ELSE NoMask

HandleMouseDown(p) ==
    /\ ShowEditor
    /\ IF editorMode # "retouch" \/ isLoading
       THEN UNCHANGED <<overlay, isDrawing>>
       ELSE /\ isDrawing' = TRUE
            /\ overlay' = DrawOnCanvas(isDrawing, p)
    /\ Did("handleMouseDown")
    /\ UNCHANGED <<baseImage, textElements, selectedTextId, isLoading,
                   error, isDesignerOpen, isUploadModalOpen, editorMode,
                   retouchMask, crop, completedCrop, flows, now, calc>>

\* A faulty handleMouseMove: the mode is not tested.
HandleMouseMoveAnyMode(p) ==
    /\ ShowEditor
    /\ IF isLoading
       THEN UNCHANGED overlay
       ELSE overlay' = DrawOnCanvas(isDrawing, p)
    /\ Did("handleMouseMove")
    /\ UNCHANGED <<baseImage, textElements, selectedTextId, isLoading,
                   error, isDesignerOpen, isUploadModalOpen, editorMode,
                   retouchMask, crop, completedCrop, isDrawing, flows, now,
                   calc>>

HandleMouseMove(p) ==
    /\ ShowEditor
    /\ IF editorMode # "retouch" \/ isLoading
       THEN UNCHANGED overlay
       ELSE overlay' = DrawOnCanvas(isDrawing, p)
    /\ Did("handleMouseMove")
    /\ UNCHANGED <<baseImage, textElements, selectedTextId, isLoading,
                   error, isDesignerOpen, isUploadModalOpen, editorMode,
                   retouchMask, crop, completedCrop, isDrawing, flows, now,
                   calc>>

\* onMouseUp and onMouseLeave.
HandleMouseUp ==
    /\ ShowEditor
    /\ IF editorMode # "retouch" \/ ~isDrawing
       THEN UNCHANGED <<isDrawing, retouchMask>>
       ELSE /\ isDrawing' = FALSE
            /\ retouchMask' = DerivedMask(overlay)
    /\ Did("handleMouseUp")
    /\ UNCHANGED <<baseImage, textElements, selectedTextId, isLoading,
                   error, isDesignerOpen, isUploadModalOpen, editorMode,
                   crop, completedCrop, overlay, flows, now, calc>>

\* The window's resize event: setting the canvas size clears the canvas.
ResizeCanvas ==
    /\ ShowEditor
    /\ overlay' = BlankOverlay
    /\ Did("resizeCanvas")
    /\ UNCHANGED <<baseImage, textElements, selectedTextId, isLoading,
                   error, isDesignerOpen, isUploadModalOpen, editorMode,
                   retouchMask, crop, completedCrop, isDrawing, flows, now,
                   calc>>

\* A faulty "Clear Selection" that wipes the canvas and keeps the mask.
HandleClearMaskCanvasOnly ==
    /\ ShowEditor
    /\ editorMode = "retouch"
    /\ retouchMask # NoMask
    /\ overlay' = BlankOverlay
    /\ Did("handleClearMask")
    /\ UNCHANGED <<baseImage, textElements, selectedTextId, isLoading,
                   error, isDesignerOpen, isUploadModalOpen, editorMode,
                   retouchMask, crop, completedCrop, isDrawing, flows, now,
                   calc>>

\* RetouchPanel's "Clear Selection": disabled={isLoading || !hasMask}.
HandleClearMask ==
    /\ ShowEditor
    /\ editorMode = "retouch"
    /\ retouchMask # NoMask
    /\ overlay' = BlankOverlay
    /\ retouchMask' = NoMask
    /\ Did("handleClearMask")
    /\ UNCHANGED <<baseImage, textElements, selectedTextId, isLoading,
                   error, isDesignerOpen, isUploadModalOpen, editorMode,
                   crop, completedCrop, isDrawing, flows, now, calc>>

(***************************************************************************)
(* Crop: ReactCrop reports the live rectangle in percent (onChange) and,   *)
(* on release, the rectangle in display pixels (onComplete).  It is        *)
(* disabled unless the mode is crop and no request is loading.             *)
(***************************************************************************)
\* The displayed size of the preview image, <<width, height>>.
DisplayBox == <<200, 100>>

\* Percent rectangles <<x, y, width, height>> a drag can produce.
CropRects == { <<0, 0, 100, 100>>, <<25, 50, 50, 50>> }

ToPixelCrop(c) ==
    << (c[1] * DisplayBox[1]) \div 100, (c[2] * DisplayBox[2]) \div 100,
       (c[3] * DisplayBox[1]) \div 100, (c[4] * DisplayBox[2]) \div 100 >>

CropEnabled == ShowEditor /\ ~(editorMode # "crop" \/ isLoading)

OnCropChange(percentCrop) ==
    /\ CropEnabled
    /\ crop' = percentCrop
    /\ Did("onCropChange")
    /\ UNCHANGED <<baseImage, textElements, selectedTextId, isLoading,
                   error, isDesignerOpen, isUploadModalOpen, editorMode,
                   retouchMask, completedCrop, overlay, isDrawing, flows,
                   now, calc>>

OnCropComplete ==
    /\ CropEnabled
    /\ crop # NoCrop
    /\ completedCrop' = ToPixelCrop(crop)
    /\ Did("onCropComplete")
    /\ UNCHANGED <<baseImage, textElements, selectedTextId, isLoading,
                   error, isDesignerOpen, isUploadModalOpen, editorMode,
                   retouchMask, crop, overlay, isDrawing, flows, now, calc>>

\* A faulty apply that extracts the rectangle being dragged.
HandleApplyCropLive(ctxOk) ==
    /\ ShowEditor
    /\ editorMode = "crop"
    /\ IF completedCrop = NoCrop \/ ~ctxOk
       THEN UNCHANGED <<baseImage, editorMode, crop, completedCrop, calc>>
       ELSE /\ calc' = [fn |-> "handleApplyCrop",
                        completedCrop |-> ToPixelCrop(crop)]
            /\ baseImage' = "cropped"
            /\ editorMode' = "text"
            /\ crop' = NoCrop
            /\ completedCrop' = NoCrop
    /\ Did("handleApplyCrop")
    /\ UNCHANGED <<textElements, selectedTextId, isLoading, error,
                   isDesignerOpen, isUploadModalOpen, retouchMask, overlay,
                   isDrawing, flows, now>>

\* CropPanel's apply button; ctxOk: getContext('2d') returned a context.
\* calc records the rectangle the canvas size and the drawImage source
\* are computed from.
HandleApplyCrop(ctxOk) ==
    /\ ShowEditor
    /\ editorMode = "crop"
    /\ IF completedCrop = NoCrop \/ ~ctxOk
       THEN UNCHANGED <<baseImage, editorMode, crop, completedCrop, calc>>
       ELSE /\ calc' = [fn |-> "handleApplyCrop",
                        completedCrop |-> completedCrop]
            /\ baseImage' = "cropped"
            /\ editorMode' = "text"
            /\ crop' = NoCrop
            /\ completedCrop' = NoCrop
    /\ Did("handleApplyCrop")
    /\ UNCHANGED <<textElements, selectedTextId, isLoading, error,
                   isDesignerOpen, isUploadModalOpen, retouchMask, overlay,
                   isDrawing, flows, now>>


(***************************************************************************)
(* The canvas work of handleApplyRetouch: the base image is drawn at its   *)
(* natural size, then the mask is drawn over it, stretched to that size,   *)
(* with globalCompositeOperation = 'destination-out'.  An image is the row *)
(* of its pixels.                                                          *)
(***************************************************************************)
ImagePixels ==
    { [rgb |-> <<255, 0, 0>>, a |-> 255],
      [rgb |-> <<0, 0, 255>>, a |-> 128],
      Transparent }

\* image.width of the base image, in pixels.
NaturalWidths == {2, 4}

Images == UNION {[1..w -> ImagePixels] : w \in NaturalWidths}

\* ctx.drawImage(mask, 0, 0, image.width, image.height): pixel j of the
\* stretched mask is sampled from the mask pixel it falls on.  (Smoothing
\* blends neighbouring colours; the alpha of an opaque mask stays 255.)
Stretch(mask, width) ==
    [j \in 1..width |-> mask[((j - 1) * Len(mask)) \div width + 1]]

\* 'destination-out': the existing pixel times one minus the alpha of the
\* pixel drawn over it.
DestinationOut(dst, src) ==
    LET a == (dst.a * (255 - src.a)) \div 255
    IN IF a = 0 THEN Transparent ELSE [rgb |-> dst.rgb, a |-> a]

ImageWithTransparency(image, mask) ==
    [j \in 1..Len(image) |->
        DestinationOut(image[j], Stretch(mask, Len(image))[j])]

\* The two computations on an image and an overlay chosen at the start.
InitPixels ==
    /\ InitApp
    /\ calc \in [fn : {"input"}, image : Images, overlay : SUBSET Pixels,
                 mask : {NoMask}, out : {<< >>}]

MaskDerived ==
    /\ calc.fn = "input"
    /\ calc' = [calc EXCEPT !.fn = "handleMouseUp",
                            !.mask = DerivedMask(calc.overlay)]
    /\ UNCHANGED <<appvars, last>>

MaskComposited ==
    /\ calc.fn = "handleMouseUp"
    /\ calc.mask # NoMask
    /\ calc' = [calc EXCEPT !.fn = "handleApplyRetouch",
                            !.out = ImageWithTransparency(calc.image, calc.mask)]
    /\ UNCHANGED <<appvars, last>>

NextPixels ==
    \/ MaskDerived
    \/ MaskComposited

SpecPixels == InitPixels /\ [][NextPixels]_vars

(***************************************************************************)
(* The canvas work of handleApplyCrop.  The image element reports its      *)
(* natural size and its displayed size; the completed crop is in displayed *)
(* pixels.  The sizes below make every product with a scale factor whole.  *)
(***************************************************************************)
\* <<naturalWidth, naturalHeight>>
NaturalSizes == {<<w, h>> : w \in {100, 200, 400, 600}, h \in {50, 100, 300}}

\* Completed rectangles <<x, y, width, height>> in displayed pixels.
CompletedRects ==
    {ToPixelCrop(<<h[1], v[1], h[2], v[2]>>) :
        h \in {<<0, 100>>, <<0, 50>>, <<50, 50>>, <<25, 50>>},
        v \in {<<0, 100>>, <<0, 50>>, <<50, 50>>}}

\* v * scaleX, where scaleX = image.naturalWidth / image.width.
Scaled(v, natural, displayed) == (v * natural) \div displayed

\* canvas.width = completedCrop.width; canvas.height = completedCrop.height
CropCanvas(cc) == <<cc[3], cc[4]>>

\* The source rectangle of ctx.drawImage, in natural pixels.
CropSource(cc, natural) ==
    << Scaled(cc[1], natural[1], DisplayBox[1]),
       Scaled(cc[2], natural[2], DisplayBox[2]),
       Scaled(cc[3], natural[1], DisplayBox[1]),
       Scaled(cc[4], natural[2], DisplayBox[2]) >>

InitCrop ==
    /\ InitApp
    /\ calc \in [fn : {"input"}, natural : NaturalSizes,
                 completedCrop : CompletedRects, canvas : {<< >>},
                 source : {<< >>}]

\* The cropped image is the canvas: toDataURL keeps the canvas size.
CropExtracted ==
    /\ calc.fn = "input"
    /\ calc' = [calc EXCEPT !.fn = "handleApplyCrop",
                            !.canvas = CropCanvas(calc.completedCrop),
                            !.source = CropSource(calc.completedCrop,
                                                  calc.natural)]
    /\ UNCHANGED <<appvars, last>>

SpecCrop == InitCrop /\ [][CropExtracted]_vars

(***************************************************************************)
(* The remote design service.                                              *)
(***************************************************************************)
SpecMain ==
    [content |-> "VIRAL", color |-> "#FFFF00", fontSize |-> 150,
     fontFamily |-> "Anton", top |-> 10, left |-> 5,
     outlineColor |-> "#000000", outlineWidth |-> 8]

SpecSecondary ==
    [content |-> "GEMMA 3", color |-> "#FFFFFF", fontSize |-> 60,
     fontFamily |-> "Bebas Neue", top |-> 60, left |-> 5,
     outlineColor |-> "#000000", outlineWidth |-> 0]

\* What the model call of getThumbnailDesign can come back with: whether
\* the call returned, whether its text is JSON, and the parsed fields.
DesignResponses ==
    { [returned |-> TRUE, parses |-> TRUE, backgroundPrompt |-> "neon city",
       isArray |-> TRUE, textElements |-> <<SpecMain, SpecSecondary>>],
      [returned |-> TRUE, parses |-> TRUE, backgroundPrompt |-> "",
       isArray |-> TRUE, textElements |-> <<SpecMain>>],
      [returned |-> TRUE, parses |-> TRUE, backgroundPrompt |-> "neon city",
       isArray |-> FALSE, textElements |-> << >>],
      [returned |-> TRUE, parses |-> FALSE, backgroundPrompt |-> "",
       isArray |-> FALSE, textElements |-> << >>],
      [returned |-> FALSE, parses |-> FALSE, backgroundPrompt |-> "",
       isArray |-> FALSE, textElements |-> << >>] }

DesignFormatError ==
    "The AI returned an invalid design format. Please try a different prompt."

\* A faulty getThumbnailDesign that does not test the background prompt.
GetThumbnailDesignAnyPrompt(r) ==
    IF ~r.returned \/ ~r.parses
    THEN [ok |-> FALSE, message |-> DesignFormatError]
    ELSE IF ~r.isArray
         THEN [ok |-> FALSE, message |-> DesignFormatError]
         ELSE [ok |-> TRUE,
               design |-> [backgroundPrompt |-> r.backgroundPrompt,
                           textElements |-> r.textElements]]

\* getThumbnailDesign: the design, or the error it throws.
GetThumbnailDesign(r) ==
    IF ~r.returned \/ ~r.parses
    THEN [ok |-> FALSE, message |-> DesignFormatError]
    ELSE IF r.backgroundPrompt = "" \/ ~r.isArray
         THEN [ok |-> FALSE, message |-> DesignFormatError]
         ELSE [ok |-> TRUE,
               design |-> [backgroundPrompt |-> r.backgroundPrompt,
                           textElements |-> r.textElements]]

(***************************************************************************)
(* Async handlers.  A pending invocation is a record of `flows`: its       *)
(* handler, the await it is suspended at, and its local variables.  Each   *)
(* action below is the handler's code from one await to the next.          *)
(***************************************************************************)
NewFlow(kind, pc, subject) ==
    [kind |-> kind, pc |-> pc, subject |-> subject,
     design |-> << >>, loaded |-> {}]

RemoveFlow(i) == SubSeq(flows, 1, i - 1) \o SubSeq(flows, i + 1, Len(flows))

\* catch: setError(message); finally: setIsLoading(false).
FlowFails(i, message) ==
    /\ error' = message
    /\ isLoading' = FALSE
    /\ flows' = RemoveFlow(i)

\* DesignerModal's submit: onDesign(data).
HandleDesignThumbnail(subject) ==
    /\ isDesignerOpen
    /\ Len(flows) < MaxFlows
    /\ isDesignerOpen' = FALSE
    /\ isLoading' = TRUE
    /\ error' = NoError
    /\ flows' = Append(flows, NewFlow("design", "getThumbnailDesign", subject))
    /\ Did("handleDesignThumbnail")
    /\ UNCHANGED <<baseImage, textElements, selectedTextId,
                   isUploadModalOpen, editorMode, retouchMask, crop,
                   completedCrop, now, calc>>
    /\ Preview(overlay, isDrawing)

\* `text-${Date.now()}-${index}` for each element of the design, the clock
\* read once per element.
DesignLayers(specs, times) ==
    [i \in 1..Len(specs) |->
        Spread([id |-> DesignId(times[i], i - 1)], specs[i])]

ClockReads(n) ==
    {ts \in [1..n -> now..MaxClock] :
        \A i \in 1..n : \A j \in 1..n : i <= j => ts[i] <= ts[j]}

\* setBaseImage(finalImage); setTextElements(newTextElements);
\* setEditorMode('text'); finally setIsLoading(false).
DesignApplied(i, finalImage) ==
    /\ \E ts \in ClockReads(Len(flows[i].design)) :
        /\ textElements' = DesignLayers(flows[i].design, ts)
        /\ now' = IF Len(flows[i].design) = 0 THEN now
                  ELSE ts[Len(flows[i].design)]
    /\ baseImage' = finalImage
    /\ editorMode' = "text"
    /\ isLoading' = FALSE
    /\ flows' = RemoveFlow(i)
    /\ Did("designApplied")
    /\ UNCHANGED <<selectedTextId, error, isDesignerOpen,
                   isUploadModalOpen, retouchMask, crop, completedCrop,
                   calc>>
    /\ Preview(overlay, isDrawing)

\* await getThumbnailDesign(...) returns or throws.
DesignReturns(i, r) ==
    /\ flows[i].kind = "design" /\ flows[i].pc = "getThumbnailDesign"
    /\ LET res == GetThumbnailDesign(r) IN
       IF res.ok
       THEN /\ flows' = [flows EXCEPT ![i].pc = "generateImage",
                                      ![i].design = res.design.textElements]
            /\ UNCHANGED <<isLoading, error>>
       ELSE FlowFails(i, res.message)
    /\ Did("getThumbnailDesign")
    /\ UNCHANGED <<baseImage, textElements, selectedTextId, isDesignerOpen,
                   isUploadModalOpen, editorMode, retouchMask, crop,
                   completedCrop, now, calc>>
    /\ Preview(overlay, isDrawing)

\* await generateImage(...) returns, with no subject image to composite.
BackgroundApplied(i) ==
    /\ flows[i].kind = "design" /\ flows[i].pc = "generateImage"
    /\ ~flows[i].subject
    /\ DesignApplied(i, "generated")

\* The other awaits of the design flow, in order; `ok`: the awaited call
\* returned rather than threw.
DesignAwait(i, ok) ==
    /\ flows[i].kind = "design"
    /\ flows[i].pc \in {"generateImage", "fileToDataURL",
                        "removeImageBackground"}
    /\ flows[i].pc = "generateImage" => (flows[i].subject \/ ~ok)
    /\ IF ok
       THEN /\ flows' = [flows EXCEPT ![i].pc =
                   IF flows[i].pc = "generateImage" THEN "fileToDataURL"
                   ELSE IF flows[i].pc = "fileToDataURL"
                        THEN "removeImageBackground"
                        ELSE "imagesLoading"]
            /\ UNCHANGED <<isLoading, error>>
       ELSE FlowFails(i, flows[i].pc)
    /\ Did("designAwait")
    /\ UNCHANGED <<baseImage, textElements, selectedTextId, isDesignerOpen,
                   isUploadModalOpen, editorMode, retouchMask, crop,
                   completedCrop, now, calc>>
    /\ Preview(overlay, isDrawing)


\* An Image object of a pending flow fires its load event.  After the
\* second one Promise.all resolves and the handler continues: it draws on
\* a new canvas (ctxOk: getContext('2d') returned a context).
ImageLoads(i, which, ctxOk) ==
    /\ flows[i].pc = "imagesLoading"
    /\ which \notin flows[i].loaded
    /\ IF flows[i].loaded \cup {which} # {1, 2}
       THEN /\ flows' = [flows EXCEPT ![i].loaded = @ \cup {which}]
            /\ Did("imageLoads")
            /\ UNCHANGED <<baseImage, textElements, selectedTextId,
                           isLoading, error, isDesignerOpen,
                           isUploadModalOpen, editorMode, retouchMask,
                           crop, completedCrop, now, calc>>
            /\ Preview(overlay, isDrawing)
       ELSE IF ~ctxOk
            THEN /\ FlowFails(i, "Could not get canvas context")
                 /\ Did("imageLoads")
                 /\ UNCHANGED <<baseImage, textElements, selectedTextId,
                                isDesignerOpen, isUploadModalOpen,
                                editorMode, retouchMask, crop,
                                completedCrop, now, calc>>
                 /\ Preview(overlay, isDrawing)
            ELSE IF flows[i].kind = "design"
                 THEN DesignApplied(i, "composite")
                 ELSE /\ flows' = [flows EXCEPT ![i].pc = "editImage",
                                                ![i].loaded = @ \cup {which}]
                      /\ Did("imageLoads")
                      /\ UNCHANGED <<baseImage, textElements,
                                     selectedTextId, isLoading, error,
                                     isDesignerOpen, isUploadModalOpen,
                                     editorMode, retouchMask, crop,
                                     completedCrop, now, calc>>
                      /\ Preview(overlay, isDrawing)

\* An Image object of a pending flow fires its error event.  The design
\* flow sets no onerror; the retouch flow's onerror throws inside the
\* event handler.  Either way the promise awaited on never settles.
ImageFailsToLoad(i, which) ==
    /\ flows[i].pc = "imagesLoading"
    /\ which \notin flows[i].loaded
    /\ flows' = [flows EXCEPT ![i].pc = "hung"]
    /\ Did("imageFailsToLoad")
    /\ UNCHANGED <<baseImage, textElements, selectedTextId, isLoading,
                   error, isDesignerOpen, isUploadModalOpen, editorMode,
                   retouchMask, crop, completedCrop, now, calc>>
    /\ Preview(overlay, isDrawing)

\* A faulty handleApplyRetouch: the early return tests the image only.
HandleApplyRetouchUnguarded ==
    /\ ShowEditor
    /\ editorMode = "retouch"
    /\ IF baseImage = NoImage
       THEN UNCHANGED <<isLoading, error, flows>>
       ELSE /\ Len(flows) < MaxFlows
            /\ isLoading' = TRUE
            /\ error' = NoError
            /\ flows' = Append(flows, NewFlow("retouch", "imagesLoading", FALSE))
    /\ Did("handleApplyRetouch")
    /\ UNCHANGED <<baseImage, textElements, selectedTextId, isDesignerOpen,
                   isUploadModalOpen, editorMode, retouchMask, crop,
                   completedCrop, now, calc>>
    /\ Preview(overlay, isDrawing)

\* RetouchPanel's "Apply Retouch": onApplyRetouch(prompt).
HandleApplyRetouch ==
    /\ ShowEditor
    /\ editorMode = "retouch"
    /\ IF baseImage = NoImage \/ retouchMask = NoMask
       THEN UNCHANGED <<isLoading, error, flows>>
       ELSE /\ Len(flows) < MaxFlows
            /\ isLoading' = TRUE
            /\ error' = NoError
            /\ flows' = Append(flows, NewFlow("retouch", "imagesLoading", FALSE))
    /\ Did("handleApplyRetouch")
    /\ UNCHANGED <<baseImage, textElements, selectedTextId, isDesignerOpen,
                   isUploadModalOpen, editorMode, retouchMask, crop,
                   completedCrop, now, calc>>
    /\ Preview(overlay, isDrawing)

\* A faulty retouch return that also puts the editor back in text mode.
EditReturnsToText(i, ok) ==
    /\ flows[i].kind = "retouch" /\ flows[i].pc = "editImage"
    /\ IF ok
       THEN /\ baseImage' = "edited"
            /\ retouchMask' = NoMask
            /\ isLoading' = FALSE
            /\ flows' = RemoveFlow(i)
            /\ editorMode' = "text"
            /\ UNCHANGED error
            /\ Preview(BlankOverlay, isDrawing)
       ELSE /\ FlowFails(i, "editImage")
            /\ UNCHANGED <<baseImage, retouchMask, editorMode>>
            /\ Preview(overlay, isDrawing)
    /\ Did("editReturns")
    /\ UNCHANGED <<textElements, selectedTextId, isDesignerOpen,
                   isUploadModalOpen, crop, completedCrop, now, calc>>

\* await editImage(...) returns or throws.  On return:
\* setBaseImage(editedImageUrl); handleClearMask().
EditReturns(i, ok) ==
    /\ flows[i].kind = "retouch" /\ flows[i].pc = "editImage"
    /\ IF ok
       THEN /\ baseImage' = "edited"
            /\ retouchMask' = NoMask
            /\ isLoading' = FALSE
            /\ flows' = RemoveFlow(i)
            /\ UNCHANGED error
            /\ Preview(BlankOverlay, isDrawing)
       ELSE /\ FlowFails(i, "editImage")
            /\ UNCHANGED <<baseImage, retouchMask>>
            /\ Preview(overlay, isDrawing)
    /\ Did("editReturns")
    /\ UNCHANGED <<textElements, selectedTextId, isDesignerOpen,
                   isUploadModalOpen, editorMode, crop, completedCrop, now,
                   calc>>

\* UploadEditModal's submit: onCreate(sourceImage, prompt).
HandleCreateFromUpload ==
    /\ isUploadModalOpen
    /\ Len(flows) < MaxFlows
    /\ isUploadModalOpen' = FALSE
    /\ isLoading' = TRUE
    /\ error' = NoError
    /\ flows' = Append(flows, NewFlow("upload", "createThumbnailFromImage", FALSE))
    /\ Did("handleCreateFromUpload")
    /\ UNCHANGED <<baseImage, textElements, selectedTextId, isDesignerOpen,
                   editorMode, retouchMask, crop, completedCrop, now, calc>>
    /\ Preview(overlay, isDrawing)

\* await createThumbnailFromImage(...) returns or throws.
TransformReturns(i, ok) ==
    /\ flows[i].kind = "upload"
    /\ IF ok
       THEN /\ baseImage' = "transformed"
            /\ textElements' = << >>
            /\ editorMode' = "text"
            /\ isLoading' = FALSE
            /\ flows' = RemoveFlow(i)
            /\ UNCHANGED error
       ELSE /\ FlowFails(i, "createThumbnailFromImage")
            /\ UNCHANGED <<baseImage, textElements, editorMode>>
    /\ Did("transformReturns")
    /\ UNCHANGED <<selectedTextId, isDesignerOpen, isUploadModalOpen,
                   retouchMask, crop, completedCrop, now, calc>>
    /\ Preview(overlay, isDrawing)

(***************************************************************************)
(* The start screen's two buttons and the modals' close controls.  The     *)
(* modals are rendered beside renderContent(), whatever view it shows.     *)
(***************************************************************************)
SetIsDesignerOpen(open) ==
    /\ IF open THEN ShowStart ELSE isDesignerOpen
    /\ isDesignerOpen' = open
    /\ Did("setIsDesignerOpen")
    /\ UNCHANGED <<baseImage, textElements, selectedTextId, isLoading,
                   error, isUploadModalOpen, editorMode, retouchMask, crop,
                   completedCrop, overlay, isDrawing, flows, now, calc>>

SetIsUploadModalOpen(open) ==
    /\ IF open THEN ShowStart ELSE isUploadModalOpen
    /\ isUploadModalOpen' = open
    /\ Did("setIsUploadModalOpen")
    /\ UNCHANGED <<baseImage, textElements, selectedTextId, isLoading,
                   error, isDesignerOpen, editorMode, retouchMask, crop,
                   completedCrop, overlay, isDrawing, flows, now, calc>>

(***************************************************************************)
(* The application.                                                        *)
(***************************************************************************)
\* The ids updateText and deleteText are called with.
TextInputs == LayerIds(textElements) \cup {AbsentId}

\* The text layer controls.
NextText ==
    \/ AddText
    \/ \E id \in TextInputs : \E updates \in UpdateChoices : UpdateText(id, updates)
    \/ \E id \in TextInputs : DeleteText(id)
    \/ \E id \in LayerIds(textElements) : SelectText(id)

\* The retouch and crop controls.
NextCanvas ==
    \/ \E p \in Pixels : HandleMouseDown(p)
    \/ \E p \in Pixels : HandleMouseMove(p)
    \/ HandleMouseUp
    \/ ResizeCanvas
    \/ HandleClearMask
    \/ HandleApplyRetouch
    \/ \E c \in CropRects : OnCropChange(c)
    \/ OnCropComplete
    \/ \E ctxOk \in BOOLEAN : HandleApplyCrop(ctxOk)

\* The toolbar, "Start Over" and "Try Again".
NextShell ==
    \/ \E mode \in EditorModes : SetEditorMode(mode)
    \/ HandleStartOver
    \/ DismissError

\* "Create from Photo".
NextUpload ==
    \/ \E open \in BOOLEAN : SetIsUploadModalOpen(open)
    \/ HandleCreateFromUpload

\* "AI Thumbnail Designer".
NextDesigner ==
    \/ \E open \in BOOLEAN : SetIsDesignerOpen(open)
    \/ \E subject \in BOOLEAN : HandleDesignThumbnail(subject)

\* The continuations of the upload, design and retouch handlers.
UploadStep ==
    \E i \in 1..Len(flows) : \E ok \in BOOLEAN : TransformReturns(i, ok)

DesignStep ==
    \E i \in 1..Len(flows) :
        \/ \E r \in DesignResponses : DesignReturns(i, r)
        \/ BackgroundApplied(i)
        \/ \E ok \in BOOLEAN : DesignAwait(i, ok)

ImageStep ==
    \E i \in 1..Len(flows) : \E which \in {1, 2} :
        \/ \E ctxOk \in BOOLEAN : ImageLoads(i, which, ctxOk)
        \/ ImageFailsToLoad(i, which)

RetouchStep ==
    \E i \in 1..Len(flows) : \E ok \in BOOLEAN : EditReturns(i, ok)

Next ==
    \/ NextText
    \/ NextCanvas
    \/ NextShell
    \/ NextUpload
    \/ NextDesigner
    \/ UploadStep
    \/ DesignStep
    \/ ImageStep
    \/ RetouchStep

Spec == Init /\ [][Next]_vars

(***************************************************************************)
(* The application with part of its controls left unused.  Every behaviour *)
(* of one of these is a behaviour of Spec.                                 *)
(***************************************************************************)
\* A document made from a photo, and the text layer controls.
NextLayers ==
    \/ NextUpload
    \/ UploadStep
    \/ NextText

SpecText == Init /\ [][NextLayers]_vars

\* A document made from a photo, and every control of the editor view.
NextEditor ==
    \/ NextUpload
    \/ UploadStep
    \/ AddText
    \/ \E id \in LayerIds(textElements) : SelectText(id)
    \/ NextCanvas
    \/ NextShell
    \/ ImageStep
    \/ RetouchStep

SpecEdit == Init /\ [][NextEditor]_vars

\* Both start screen buttons, the flows they start, and text layers.
NextDocument ==
    \/ NextUpload
    \/ NextDesigner
    \/ UploadStep
    \/ DesignStep
    \/ ImageStep
    \/ AddText
    \/ \E id \in LayerIds(textElements) : SelectText(id)
    \/ HandleStartOver
    \/ DismissError

SpecDesign == Init /\ [][NextDocument]_vars

\* Both start screen buttons, the flows they start, and the toolbar.
NextModes ==
    \/ NextUpload
    \/ NextDesigner
    \/ UploadStep
    \/ DesignStep
    \/ ImageStep
    \/ NextShell

SpecModes == Init /\ [][NextModes]_vars

(***************************************************************************)
(* Export: handleDownload.  The click handler keeps the background and the *)
(* layers of the render it was created in; the canvas calls are issued     *)
(* when the image has loaded.  calc holds the document exported and the    *)
(* canvas calls in the order issued.  Positions are multiples of 5         *)
(* percent, which makes x and y whole.                                     *)
(***************************************************************************)
ThumbnailWidth == 1280
ThumbnailHeight == 720

\* ctx.drawImage(img, 0, 0, thumbnailWidth, thumbnailHeight)
DrawBackground(img) ==
    [op |-> "drawImage", what |-> img, x |-> 0, y |-> 0,
     w |-> ThumbnailWidth, h |-> ThumbnailHeight]

\* ctx.strokeText / ctx.fillText with the context state they are drawn in.
DrawText(op, text, style, lineWidth) ==
    [op |-> op, what |-> text.content,
     x |-> (text.left * ThumbnailWidth) \div 100,
     y |-> (text.top * ThumbnailHeight) \div 100,
     font |-> <<900, text.fontSize, text.fontFamily>>,
     textAlign |-> "left", textBaseline |-> "top",
     style |-> style, lineWidth |-> lineWidth]

\* A faulty loop body that strokes every layer.
TextOpsAlwaysStroked(text) ==
    << DrawText("strokeText", text, text.outlineColor, text.outlineWidth * 2),
       DrawText("fillText", text, text.color, 0) >>

\* The body of textElements.forEach.
TextOps(text) ==
    (IF text.outlineWidth > 0
     THEN << DrawText("strokeText", text, text.outlineColor,
                      text.outlineWidth * 2) >>
     ELSE << >>)
    \o << DrawText("fillText", text, text.color, 0) >>

RECURSIVE ForEachTextReversed(_)
\* A faulty loop that starts from the last layer.
ForEachTextReversed(layers) ==
    IF layers = << >> THEN << >>
    ELSE ForEachTextReversed(Tail(layers)) \o TextOps(Head(layers))

RECURSIVE ForEachText(_)
ForEachText(layers) ==
    IF layers = << >> THEN << >>
    ELSE TextOps(Head(layers)) \o ForEachText(Tail(layers))

\* img.onload of handleDownload.
Flatten(img, layers) == <<DrawBackground(img)>> \o ForEachText(layers)

\* Outline widths and <<top, left>> positions of the exported layers.
ExportOutlineWidths == {-2, 0, 5}
ExportPositions == { <<40, 20>>, <<0, 0>>, <<100, 50>> }

ExportLayer(spec, index, width, pos) ==
    [id |-> DesignId(0, index), content |-> spec.content,
     color |-> spec.color, fontSize |-> spec.fontSize,
     fontFamily |-> spec.fontFamily, top |-> pos[1], left |-> pos[2],
     outlineColor |-> spec.outlineColor, outlineWidth |-> width]

\* Documents: no layer, the first design layer, or both, each with an
\* outline width and a position.
ExportDocuments ==
    LET first == {ExportLayer(SpecMain, 0, w, p) :
                    w \in ExportOutlineWidths, p \in ExportPositions}
        second == {ExportLayer(SpecSecondary, 1, w, p) :
                    w \in ExportOutlineWidths, p \in ExportPositions}
    IN {<< >>} \cup {<<a>> : a \in first}
              \cup {<<a, b>> : a \in first, b \in second}

InitExport ==
    /\ InitApp
    /\ calc \in [fn : {"input"}, baseImage : {NoImage, "generated"},
                 textElements : ExportDocuments, ops : {<< >>}]

\* The click: returns at once with no background or no 2d context,
\* otherwise starts loading the image.
HandleDownload(ctxOk) ==
    /\ calc.fn = "input"
    /\ calc' = [calc EXCEPT !.fn =
                   IF calc.baseImage = NoImage \/ ~ctxOk
                   THEN "returned" ELSE "imageLoading"]
    /\ UNCHANGED <<appvars, last>>

\* img.onload; with no onerror handler a failed load draws nothing.
DownloadImageSettles(loaded) ==
    /\ calc.fn = "imageLoading"
    /\ calc' = IF loaded
               THEN [calc EXCEPT !.fn = "downloaded",
                        !.ops = Flatten(calc.baseImage, calc.textElements)]
               ELSE [calc EXCEPT !.fn = "abandoned"]
    /\ UNCHANGED <<appvars, last>>

NextExport ==
    \/ \E ctxOk \in BOOLEAN : HandleDownload(ctxOk)
    \/ \E loaded \in BOOLEAN : DownloadImageSettles(loaded)

SpecExport == InitExport /\ [][NextExport]_vars

(***************************************************************************)
(* Compositing the subject on the generated background, in                 *)
(* handleDesignThumbnail.  The arithmetic is that of the real numbers: a   *)
(* number is a fraction <<numerator, denominator>> in lowest terms with a  *)
(* positive denominator.  (The doubles of the code differ from these       *)
(* values by rounding, below 1e-12 of a pixel for the sizes here.)         *)
(***************************************************************************)
RECURSIVE Gcd(_, _)
Gcd(a, b) == IF b = 0 THEN a ELSE Gcd(b, a % b)

Abs(n) == IF n < 0 THEN -n ELSE n

Frac(n, d) ==
    LET g == Gcd(Abs(n), d) IN <<n \div g, d \div g>>

Whole(n) == <<n, 1>>
Times(a, b) == Frac(a[1] * b[1], a[2] * b[2])
Over(a, b) == Frac(a[1] * b[2], a[2] * b[1])
Minus(a, b) == Frac(a[1] * b[2] - b[1] * a[2], a[2] * b[2])
Plus(a, b) == Frac(a[1] * b[2] + b[1] * a[2], a[2] * b[2])
AtMost(a, b) == a[1] * b[2] <= b[1] * a[2]

\* Math.max in place of Math.min: the subject fills the larger bound.
MathMax(a, b) == IF AtMost(a, b) THEN b ELSE a

\* Math.min
MathMin(a, b) == IF AtMost(a, b) THEN a ELSE b

\* 720 * 0.9 and 1280 / 3
MaxSubHeight == Whole(648)
MaxSubWidth == Frac(1280, 3)

\* <<sx, sy, sw, sh>> of ctx.drawImage(subjectImg, sx, sy, sw, sh) for a
\* subject image of the given width and height.
PlaceSubject(width, height) ==
    LET scale == MathMin(Over(MaxSubWidth, Whole(width)),
                         Over(MaxSubHeight, Whole(height)))
        sw == Times(Whole(width), scale)
        sh == Times(Whole(height), scale)
        sx == Minus(Minus(Whole(1280), sw), Whole(64))
        sy == Over(Minus(Whole(720), sh), Whole(2))
    IN <<sx, sy, sw, sh>>

\* subjectImg.width and subjectImg.height of a loaded image.
SubjectWidths == {1, 100, 300, 426, 427, 640, 1000, 1280, 1944, 4000}
SubjectHeights == {1, 150, 500, 648, 649, 720, 1000, 1280, 3000, 4000}

InitComposite ==
    /\ InitApp
    /\ calc \in [fn : {"input"}, width : SubjectWidths,
                 height : SubjectHeights, placed : {<< >>}]

SubjectPlaced ==
    /\ calc.fn = "input"
    /\ calc' = [calc EXCEPT !.fn = "handleDesignThumbnail",
                            !.placed = PlaceSubject(calc.width, calc.height)]
    /\ UNCHANGED <<appvars, last>>

SpecComposite == InitComposite /\ [][SubjectPlaced]_vars

\* SpecEdit where every await of a pending flow settles: each remote call
\* returns or throws, each image fires its load or its error event.
FairEdit ==
    /\ SpecEdit
    /\ WF_vars(UploadStep)
    /\ WF_vars(ImageStep)
    /\ WF_vars(RetouchStep)

(***************************************************************************)
(* The three list updates of addText, updateText and deleteText applied to *)
(* layer sequences longer than the application specifications reach.  The *)
(* sequences may repeat an id.                                             *)
(***************************************************************************)
MaxOrderLen == 3

OrderLayers ==
    {NewText(AddId(t)) : t \in 0..2}
        \cup {[NewText(AddId(0)) EXCEPT !.fontSize = 120]}

OrderSequences == UNION {[1..n -> OrderLayers] : n \in 0..MaxOrderLen}

InitOrder ==
    /\ InitApp
    /\ calc \in [fn : {"input"}, prev : OrderSequences,
                 id : {AddId(t) : t \in 0..3}, out : {<< >>}]

OrderAdd ==
    /\ calc.fn = "input"
    /\ calc' = [calc EXCEPT !.fn = "addText",
                            !.out = AppendText(calc.prev, NewText(calc.id))]
    /\ UNCHANGED <<appvars, last>>

OrderUpdate(updates) ==
    /\ calc.fn = "input"
    /\ calc' = [calc EXCEPT !.fn = "updateText",
                            !.out = MapUpdate(calc.prev, calc.id, updates)]
    /\ UNCHANGED <<appvars, last>>

OrderDelete ==
    /\ calc.fn = "input"
    /\ calc' = [calc EXCEPT !.fn = "deleteText",
                            !.out = Filter(calc.prev, calc.id)]
    /\ UNCHANGED <<appvars, last>>

NextOrder ==
    \/ OrderAdd
    \/ \E updates \in UpdateChoices : OrderUpdate(updates)
    \/ OrderDelete

SpecOrder == InitOrder /\ [][NextOrder]_vars

(***************************************************************************)
(* Properties.                                                             *)
(***************************************************************************)
\* C1: after every step of a sequence of addText, deleteText and
\* layer-selection calls, the selected id is null or the id of a layer in
\* the layer sequence.
SelectionValid ==
    selectedTextId = NoId \/ selectedTextId \in LayerIds(textElements)

\* A layer was deleted and another layer is still the selected one.
SelectionKeptAfterDelete ==
    /\ last = "deleteText"
    /\ selectedTextId # NoId
    /\ selectedTextId \in LayerIds(textElements)

\* C2: in the compositing step of handleApplyRetouch every pixel under a
\* white mask pixel becomes fully transparent and every pixel under a black
\* mask pixel is left as it was.
MaskRemovalExact ==
    calc.fn = "handleApplyRetouch" =>
        \A j \in 1..Len(calc.image) :
            LET m == Stretch(calc.mask, Len(calc.image))[j]
            IN /\ m = White => calc.out[j].a = 0
               /\ m = Black => calc.out[j] = calc.image[j]

\* C3: the image handleApplyCrop extracts has the size of the crop
\* rectangle in natural pixels; a rectangle covering the whole displayed
\* image gives the natural size of the image.
CropKeepsNaturalSize ==
    calc.fn = "handleApplyCrop" =>
        /\ calc.canvas = <<calc.source[3], calc.source[4]>>
        /\ calc.completedCrop = <<0, 0, DisplayBox[1], DisplayBox[2]>>
               => calc.canvas = calc.natural

\* C4: the mask derived on release from an overlay with no painted cell is
\* null, and handleApplyRetouch, called while the mask is null, starts no
\* request and changes no state.
NoMaskNoRetouch ==
    [][ /\ (last' = "handleMouseUp" /\ editorMode = "retouch" /\ isDrawing
              /\ overlay = BlankOverlay) => retouchMask' = NoMask
        /\ (last' = "handleApplyRetouch" /\ retouchMask = NoMask)
              => UNCHANGED appvars ]_vars

\* "Apply Retouch" ran in retouch mode without a mask.
RetouchRefused ==
    /\ last = "handleApplyRetouch"
    /\ editorMode = "retouch"
    /\ retouchMask = NoMask
    /\ flows = << >>
    /\ ~isLoading

\* C5: deleteText(id) removes the layer with that id and keeps the others
\* in order; the selection becomes null if it was that id and is unchanged
\* otherwise.
DeleteRemovesAndDeselects ==
    [][ \A id \in TextInputs :
          DeleteText(id) =>
            /\ textElements' = SelectSeq(textElements, LAMBDA text : text.id # id)
            /\ id \notin LayerIds(textElements')
            /\ selectedTextId' = IF selectedTextId = id THEN NoId
                                 ELSE selectedTextId ]_vars

\* The selected layer was deleted while another layer stays.
SelectedLayerDeleted ==
    /\ last = "deleteText"
    /\ selectedTextId = NoId
    /\ Len(textElements) = 1

\* C6: addText appends one layer with the fixed defaults to the end of the
\* sequence, leaves the existing layers unchanged and selects the new one.
AddAppendsDefaults ==
    [][ AddText =>
          /\ Len(textElements') = Len(textElements) + 1
          /\ SubSeq(textElements', 1, Len(textElements)) = textElements
          /\ LET new == textElements'[Len(textElements')]
             IN /\ [f \in DOMAIN new \ {"id"} |-> new[f]] =
                      [content |-> "Your Text Here", color |-> "#FFFFFF",
                       fontSize |-> 80, fontFamily |-> "Anton",
                       top |-> 40, left |-> 20,
                       outlineColor |-> "#000000", outlineWidth |-> 5]
                /\ selectedTextId' = new.id ]_vars

\* A second layer was added behind an existing one and is selected.
SecondLayerAdded ==
    /\ last = "addText"
    /\ Len(textElements) = 2
    /\ selectedTextId = textElements[2].id

\* C7: updateText(id, updates) changes only the given fields of the layers
\* with that id; every other field, every other layer, the order and the
\* selection are unchanged, and with no such layer the document is
\* unchanged.
UpdateChangesOnlyGiven ==
    [][ \A id \in TextInputs : \A updates \in UpdateChoices :
          UpdateText(id, updates) =>
            /\ Len(textElements') = Len(textElements)
            /\ \A i \in 1..Len(textElements) :
                 /\ DOMAIN textElements'[i] = DOMAIN textElements[i]
                 /\ \A f \in DOMAIN textElements[i] :
                      textElements'[i][f] =
                        IF textElements[i].id = id /\ f \in DOMAIN updates
                        THEN updates[f] ELSE textElements[i][f]
            /\ selectedTextId' = selectedTextId
            /\ id \notin LayerIds(textElements) => UNCHANGED appvars ]_vars

\* One of two layers was given a new font size, the other has the default.
OneLayerResized ==
    /\ last = "updateText"
    /\ Len(textElements) = 2
    /\ textElements[1].fontSize = 120
    /\ textElements[2].fontSize = 80

\* C8: when a design is applied, the prior layers are replaced by the
\* design's layers and the selected id becomes null.
DesignDiscardsSelection ==
    last = "designApplied" =>
        /\ \A i \in 1..Len(textElements) : Len(textElements[i].id) = 2
        /\ selectedTextId = NoId

\* C9: after handleStartOver there is no background, no layer, no
\* selection, no mask and no painted overlay, no live and no completed
\* crop, and the mode is text.
ResetClearsDocument ==
    last = "handleStartOver" =>
        /\ baseImage = NoImage
        /\ textElements = << >>
        /\ selectedTextId = NoId
        /\ retouchMask = NoMask
        /\ overlay = BlankOverlay
        /\ crop = NoCrop
        /\ completedCrop = NoCrop
        /\ editorMode = "text"

\* "Start Over" was pressed.
StartedOver ==
    /\ last = "handleStartOver"
    /\ ShowStart

\* C10: a mode switch sets the mode and leaves background, layers,
\* selection, mask, live crop and completed crop unchanged; in the editor
\* each mode can be entered in one step.
ModeSwitchOnly ==
    /\ [](ShowEditor => \A mode \in EditorModes : ENABLED SetEditorMode(mode))
    /\ [][ \A mode \in EditorModes :
             SetEditorMode(mode) =>
               /\ editorMode' = mode
               /\ UNCHANGED <<baseImage, textElements, selectedTextId,
                              retouchMask, crop, completedCrop>> ]_vars

\* The mode was switched with a layer selected, a mask and both crops set.
ModeSwitchedWithWork ==
    /\ last = "setEditorMode"
    /\ editorMode = "text"
    /\ selectedTextId # NoId
    /\ retouchMask # NoMask
    /\ crop # NoCrop
    /\ completedCrop # NoCrop

\* C11: every step that replaces the background with the result of a
\* retouch, a crop or a photo transform leaves the layer sequence as it was.
BackgroundReplaceKeepsLayers ==
    [][ (last' \in {"transformReturns", "editReturns", "handleApplyCrop"}
           /\ baseImage' # baseImage) => textElements' = textElements ]_vars

\* The awaits of the handlers that are calls of the remote service.
RemoteCalls ==
    {"getThumbnailDesign", "generateImage", "removeImageBackground",
     "createThumbnailFromImage", "editImage"}

InFlight == {i \in 1..Len(flows) : flows[i].pc \in RemoteCalls}

\* C12: at most one remote request is in flight at any time, and a
\* submission made while the busy flag is set starts none.
SingleRequestInFlight ==
    /\ Cardinality(InFlight) <= 1
    /\ (isLoading /\ last \in {"handleDesignThumbnail", "handleCreateFromUpload",
                               "handleApplyRetouch"}) => Len(flows) <= 1

\* C13: a response that arrives after "start over", from a request that was
\* pending when it was pressed, does not overwrite the background, the
\* layers or the mode of the fresh document.
StaleResponseDiscarded ==
    [][ (last = "handleStartOver" /\ flows # << >>
           /\ last' \in {"designApplied", "transformReturns", "editReturns",
                         "imageLoads"})
          => UNCHANGED <<baseImage, textElements, editorMode>> ]_vars

\* C14: a flow that joins two image loads goes on only when both images
\* have loaded, and a flow one of whose images failed to load has ended
\* with an error: none stays suspended.
ImageJoinFailsWhole ==
    \A i \in 1..Len(flows) :
        /\ flows[i].pc = "editImage" => flows[i].loaded = {1, 2}
        /\ flows[i].pc # "hung"

\* The document fields a flow applies its result to.
docvars == <<baseImage, textElements, selectedTextId, editorMode, retouchMask>>

\* Flow i takes the step in which an awaited call throws.
Throws(i) ==
    \/ \E r \in DesignResponses : ~GetThumbnailDesign(r).ok /\ DesignReturns(i, r)
    \/ DesignAwait(i, FALSE)
    \/ \E which \in {1, 2} : /\ flows[i].pc = "imagesLoading"
                             /\ flows[i].loaded \cup {which} = {1, 2}
                             /\ ImageLoads(i, which, FALSE)
    \/ EditReturns(i, FALSE)
    \/ TransformReturns(i, FALSE)

\* A step in which a call throws sets the error message, clears the busy
\* flag and leaves the document as it was.
ThrownFailureAtomic ==
    \A i \in 1..Len(flows) :
        Throws(i) => error' # NoError /\ ~isLoading' /\ UNCHANGED docvars

\* C15: when a step of an async flow fails, an error message is set and
\* background, layers, selection, mode and mask are what they were.
FailureSurfacedAtomic ==
    [][ /\ ThrownFailureAtomic
        /\ last' = "imageFailsToLoad" => error' # NoError /\ UNCHANGED docvars
      ]_vars

\* The part of C15 about thrown failures alone.
ThrownFailuresAtomic == [][ThrownFailureAtomic]_vars

ModeChangesOnlyBy ==
    /\ (last = "init" => editorMode = "text")
    /\ [][ /\ editorMode' # editorMode =>
                \/ last' = "setEditorMode"
                \/ last' \in {"handleStartOver", "dismissError"}
                     /\ baseImage' = NoImage /\ editorMode' = "text"
                \/ last' = "designApplied"
                     /\ baseImage' \in {"generated", "composite"}
                     /\ editorMode' = "text"
                \/ last' = "transformReturns"
                     /\ baseImage' = "transformed" /\ editorMode' = "text"
                \/ last' = "handleApplyCrop"
                     /\ baseImage' = "cropped" /\ editorMode' = "text"
           /\ last' = "designApplied" => editorMode' = "text"
           /\ \A i \in 1..Len(flows) :
                TransformReturns(i, TRUE) => editorMode' = "text"
           /\ last' = "editReturns" => editorMode' = editorMode
           /\ \A i \in 1..Len(flows) : Throws(i) => editorMode' = editorMode
         ]_vars

\* A retouch came back with the editor in retouch mode.
RetouchReturnedInRetouchMode ==
    /\ last = "editReturns"
    /\ editorMode = "retouch"
    /\ baseImage = "edited"

\* C18: applying a crop extracts the completed rectangle, whatever the
\* live rectangle is, and leaves the mode text and both rectangles
\* cleared; with no completed rectangle it changes nothing.
CropAppliesCompletedOnly ==
    [][ last' = "handleApplyCrop" =>
          IF completedCrop = NoCrop
          THEN UNCHANGED <<appvars, calc>>
          ELSE \/ UNCHANGED <<appvars, calc>>
               \/ /\ calc' = [fn |-> "handleApplyCrop",
                               completedCrop |-> completedCrop]
                  /\ baseImage' = "cropped"
                  /\ editorMode' = "text"
                  /\ crop' = NoCrop
                  /\ completedCrop' = NoCrop ]_vars

\* The completed half-width rectangle was extracted.
CompletedCropApplied ==
    /\ last = "handleApplyCrop"
    /\ calc = [fn |-> "handleApplyCrop",
               completedCrop |-> ToPixelCrop(<<25, 50, 50, 50>>)]
    /\ baseImage = "cropped"
    /\ editorMode = "text"

\* C19: on stroke release every overlay pixel with nonzero alpha becomes
\* (255,255,255,255) in the mask and every other pixel (0,0,0,255), the
\* mask has the overlay's pixels, and a marked pixel is reported, that is
\* a mask is handed on, exactly when some overlay pixel has nonzero alpha.
MaskIsBinary ==
    calc.fn \in {"handleMouseUp", "handleApplyRetouch"} =>
        LET data == ImageData(calc.overlay)
            marked == {p \in DOMAIN data : data[p].a # 0}
            expected == [p \in DOMAIN data |->
                           IF p \in marked
                           THEN [rgb |-> <<255, 255, 255>>, a |-> 255]
                           ELSE [rgb |-> <<0, 0, 0>>, a |-> 255]]
        IN /\ BwMask(calc.overlay) = expected
           /\ HasDrawing(calc.overlay) <=> marked # {}
           /\ calc.mask = IF marked # {} THEN expected ELSE NoMask

\* A mask was derived from an overlay with one painted and one clear pixel.
HalfPaintedMaskDerived ==
    /\ calc.fn = "handleMouseUp"
    /\ calc.overlay = {1}
    /\ calc.mask[1] = White
    /\ calc.mask[2] = Black

\* C20: "Clear Selection" and every retouch that succeeded leave no mask
\* and a blank overlay; from no mask, a mask appears only on the release
\* of a stroke over a painted overlay, a blank overlay is painted only by
\* a pointer press or move, and "Apply Retouch" with no mask starts nothing.
MaskClearedUntilNewStroke ==
    [][ /\ last' = "handleClearMask"
             => retouchMask' = NoMask /\ overlay' = BlankOverlay
        /\ \A i \in 1..Len(flows) :
             EditReturns(i, TRUE)
                => retouchMask' = NoMask /\ overlay' = BlankOverlay
        /\ (retouchMask = NoMask /\ retouchMask' # NoMask)
             => last' = "handleMouseUp" /\ overlay # BlankOverlay
        /\ (overlay = BlankOverlay /\ overlay' # BlankOverlay)
             => last' \in {"handleMouseDown", "handleMouseMove"}
        /\ (retouchMask = NoMask /\ last' = "handleApplyRetouch")
             => flows' = flows /\ ~isLoading'
      ]_vars

\* "Clear Selection" was pressed on a background that a retouch produced.
SelectionClearedAfterRetouch ==
    /\ last = "handleClearMask"
    /\ baseImage = "edited"
    /\ retouchMask = NoMask
    /\ overlay = BlankOverlay

\* The canvas calls of the export that drew layer k: those between the
\* fill of layer k - 1 and the fill of layer k, the latter included.
FillIndexes == {n \in 1..Len(calc.ops) : calc.ops[n].op = "fillText"}
FillIndex(k) ==
    CHOOSE n \in FillIndexes : Cardinality({m \in FillIndexes : m <= n}) = k
CallsOfLayer(k) ==
    LET from == IF k = 1 THEN 2 ELSE FillIndex(k - 1) + 1
    IN SubSeq(calc.ops, from, FillIndex(k))

\* C21: in a finished export a layer with outlineWidth > 0 is drawn by a
\* strokeText in its outline colour with line width twice the outline
\* width followed by its fillText, and a layer with outlineWidth <= 0 by
\* its fillText alone, so the export has as many strokes as outlined layers.
OutlineStrokedIffPositive ==
    calc.fn = "downloaded" =>
        LET layers == calc.textElements IN
        /\ Cardinality(FillIndexes) = Len(layers)
        /\ \A k \in 1..Len(layers) :
             LET calls == CallsOfLayer(k) IN
             IF layers[k].outlineWidth > 0
             THEN /\ Len(calls) = 2
                  /\ calls[1].op = "strokeText"
                  /\ calls[1].what = layers[k].content
                  /\ calls[1].style = layers[k].outlineColor
                  /\ calls[1].lineWidth = 2 * layers[k].outlineWidth
                  /\ calls[2].op = "fillText"
                  /\ calls[2].style = layers[k].color
             ELSE /\ Len(calls) = 1
                  /\ calls[1].op = "fillText"
                  /\ calls[1].style = layers[k].color
        /\ Cardinality({n \in 1..Len(calc.ops) : calc.ops[n].op = "strokeText"})
             = Cardinality({k \in 1..Len(layers) : layers[k].outlineWidth > 0})

\* An export of an outlined layer under a layer with outline width 0.
OutlinedAndPlainExported ==
    /\ calc.fn = "downloaded"
    /\ Len(calc.textElements) = 2
    /\ calc.textElements[1].outlineWidth = 5
    /\ calc.textElements[2].outlineWidth = 0
    /\ Len(calc.ops) = 4

\* C22: a finished export drew the background first, once, over the whole
\* 1280 by 720 canvas, then each layer once in sequence order at
\* (left/100 * 1280, top/100 * 720), left aligned from the top; an export
\* with no background issues no canvas call; no step of an export changes
\* the document it exports or the application state.
ExportDrawsInLayerOrder ==
    /\ [](LET layers == calc.textElements
              ops == calc.ops
          IN /\ calc.fn = "downloaded" =>
                  /\ calc.baseImage # NoImage
                  /\ ops[1] = [op |-> "drawImage", what |-> calc.baseImage,
                               x |-> 0, y |-> 0, w |-> 1280, h |-> 720]
                  /\ \A n \in 2..Len(ops) : ops[n].op # "drawImage"
                  /\ Cardinality(FillIndexes) = Len(layers)
                  /\ \A k \in 1..Len(layers) :
                       \A n \in 1..Len(CallsOfLayer(k)) :
                          LET call == CallsOfLayer(k)[n] IN
                          /\ call.what = layers[k].content
                          /\ call.x * 100 = layers[k].left * 1280
                          /\ call.y * 100 = layers[k].top * 720
                          /\ call.textAlign = "left"
                          /\ call.textBaseline = "top"
             /\ calc.fn # "downloaded" => ops = << >>)
    /\ [][ /\ calc'.baseImage = calc.baseImage
           /\ calc'.textElements = calc.textElements
           /\ UNCHANGED appvars ]_vars

\* An export of two layers ended with the second layer's fill.
TwoLayersExported ==
    /\ calc.fn = "downloaded"
    /\ Len(calc.textElements) = 2
    /\ calc.ops[1].op = "drawImage"
    /\ calc.ops[Len(calc.ops)].what = "GEMMA 3"
    /\ calc.ops[2].what = "VIRAL"

DesignValidated ==
    [][ \A i \in 1..Len(flows) : \A r \in DesignResponses :
          DesignReturns(i, r) =>
            IF r.returned /\ r.parses /\ r.backgroundPrompt # "" /\ r.isArray
            THEN /\ Len(flows') = Len(flows)
                 /\ flows'[i].pc = "generateImage"
                 /\ flows'[i].design = r.textElements
                 /\ error' = error
            ELSE /\ Len(flows') = Len(flows) - 1
                 /\ error' = "The AI returned an invalid design format. Please try a different prompt."
                 /\ ~isLoading'
                 /\ UNCHANGED docvars ]_vars

\* A design response was rejected before any background existed.
DesignRejected ==
    /\ last = "getThumbnailDesign"
    /\ error = DesignFormatError
    /\ baseImage = NoImage
    /\ textElements = << >>
    /\ flows = << >>

\* C25: "Try Again" clears the error; pressed with no background it
\* leaves no background, no layer, no selection, text mode and the busy
\* flag clear; pressed with a background it leaves background, layers,
\* selection and mode as they were.
DismissKeepsDocument ==
    [][ last' = "dismissError" =>
          /\ error # NoError
          /\ error' = NoError
          /\ IF baseImage = NoImage
             THEN /\ baseImage' = NoImage
                  /\ textElements' = << >>
                  /\ selectedTextId' = NoId
                  /\ editorMode' = "text"
                  /\ ~isLoading'
             ELSE UNCHANGED <<baseImage, textElements, selectedTextId,
                              editorMode>> ]_vars

\* The error of a failed retouch was dismissed, back in the editor.
RetouchErrorDismissed ==
    /\ last = "dismissError"
    /\ baseImage # NoImage
    /\ editorMode = "retouch"
    /\ retouchMask # NoMask
    /\ ShowEditor

\* C26: in every reachable state the layers have pairwise distinct ids.
LayerIdsDistinct ==
    \A i, j \in 1..Len(textElements) :
        i # j => textElements[i].id # textElements[j].id

\* C27: when every await settles, a flow that set the busy flag
\* eventually ends with the flag cleared.
BusyEventuallyCleared == isLoading ~> ~isLoading

\* C28: in every reachable state, if the retouch mask is set then the
\* overlay has a painted pixel.
MaskImpliesPaintedOverlay ==
    retouchMask # NoMask => overlay # BlankOverlay

\* The layers of a sequence at the indices outside a set, in their order.
Remaining(seq, removed) ==
    LET F[n \in 0..Len(seq)] ==
            IF n = 0 THEN << >>
            ELSE IF n \in removed THEN F[n - 1]
                 ELSE Append(F[n - 1], seq[n])
    IN F[Len(seq)]

\* C29: addText leaves the earlier layers at their indexes and puts the
\* new layer last; updateText leaves every layer at its index; deleteText
\* leaves the layers it keeps in the order they had.
ZOrderPreserved ==
    /\ calc.fn = "addText" =>
         /\ Len(calc.out) = Len(calc.prev) + 1
         /\ SubSeq(calc.out, 1, Len(calc.prev)) = calc.prev
    /\ calc.fn = "updateText" =>
         /\ Len(calc.out) = Len(calc.prev)
         /\ \A i \in 1..Len(calc.prev) :
              /\ calc.out[i].id = calc.prev[i].id
              /\ calc.prev[i].id # calc.id => calc.out[i] = calc.prev[i]
    /\ calc.fn = "deleteText" =>
         \E removed \in SUBSET (1..Len(calc.prev)) :
             calc.out = Remaining(calc.prev, removed)

\* The middle one of three layers was deleted and the other two remain.
MiddleLayerDeleted ==
    /\ calc.fn = "deleteText"
    /\ Len(calc.prev) = 3
    /\ calc.prev[2].id = calc.id
    /\ calc.out = <<calc.prev[1], calc.prev[3]>>
    /\ calc.prev[1] # calc.prev[3]

\* C30: a press in retouch mode while not busy starts a stroke and paints
\* the brush at the press point, and a release that directly follows a
\* press in retouch mode leaves a mask set.
PressStampsBrush ==
    [][ /\ \A p \in Pixels :
             (HandleMouseDown(p) /\ editorMode = "retouch" /\ ~isLoading)
                => isDrawing' /\ Stamp(p) \subseteq overlay'
        /\ (last = "handleMouseDown" /\ last' = "handleMouseUp"
              /\ editorMode = "retouch")
             => retouchMask' # NoMask ]_vars

====
